---------------------------- MODULE Spec2Model ----------------------------
(***************************************************************************)
(* FTSE 100 scraper, part 2 (scraping-scripts/ftse100_scraper_part_2.py).  *)
(*                                                                         *)
(* The script is a sequential batch job.  Each of its functions is a       *)
(* process position (pc) of one state machine; the external search and     *)
(* history service (investpy) is the environment, whose answers are        *)
(* chosen nondeterministically.  Date strings "yyyy-mm-dd" are modelled as *)
(* triples <<y, m, d>>, data frames as sequences of rows.                  *)
(***************************************************************************)
EXTENDS Integers, Sequences, FiniteSets, TLC

VARIABLES
    pc,                     \* position of the script
    start_date, end_date,   \* the trading period
    constituents,           \* the membership table handed to a function
    f,                      \* months_between_date's result
    common,                 \* common_constituents' result
    i,                      \* loop index of the running function
    constituents_symbols,   \* scrape_constituents_symbols: Company/Symbol table
    errors,                 \* scrape_constituents_symbols: companies not found
    lookups,                \* history of the search calls of the resolver
    constituents_w_symbols, \* match_company_symbol's result
    symbols,                \* scrape_daily_returns: rows with unique symbols
    searched_data,          \* scrape_daily_returns: the wide table
    fetched                 \* history of the fetches of scrape_daily_returns

vars == <<pc, start_date, end_date, constituents, f, common, i,
          constituents_symbols, errors, lookups, constituents_w_symbols,
          symbols, searched_data, fetched>>

----------------------------------------------------------------------------
(* Bounds of the model *)

\* number of calendar years the date strings range over, from 2014
NumYears == 2
\* longest membership table of the filter's and the resolver's inputs
MaxRows == 3
\* longest monthly membership history of the matcher's input
MaxMonths == 70
\* last trading date of the history service
MaxDate == 4
\* longest matched table handed to scrape_daily_returns on its own
MaxMatched == 2

----------------------------------------------------------------------------
(* Values *)

\* pandas' missing value
NaN == "NaN"

\* an empty data frame / a variable not in use
Empty == <<>>

Years == 2014 .. (2013 + NumYears)

\* days of month the date strings use: first day, and every possible last day
Days == {1, 28, 29, 30, 31}

DateStrings == Years \X (1..12) \X Days

IsLeap(y) == (y % 4 = 0 /\ y % 100 # 0) \/ y % 400 = 0

DaysInMonth(y, m) ==
    IF m = 2 THEN (IF IsLeap(y) THEN 29 ELSE 28)
    ELSE IF m \in {4, 6, 9, 11} THEN 30 ELSE 31

\* datetime.strptime(s, "%Y-%m-%d") succeeds exactly on calendar dates
strptime_ok(s) == s[3] >= 1 /\ s[3] <= DaysInMonth(s[1], s[2])

\* chronological order of two dates
DateLeq(a, b) ==
    \/ a[1] < b[1]
    \/ a[1] = b[1] /\ a[2] < b[2]
    \/ a[1] = b[1] /\ a[2] = b[2] /\ a[3] <= b[3]

Column(rows, col) == [k \in 1..Len(rows) |-> rows[k][col]]

Range(s) == {s[k] : k \in 1..Len(s)}

----------------------------------------------------------------------------
(* months_between_date *)

months_between_date_no_plus_one(start, end) ==
    (end[1] - start[1]) * 12 + (end[2] - start[2])

months_between_date(start, end) ==
    (end[1] - start[1]) * 12 + (end[2] - start[2]) + 1

----------------------------------------------------------------------------
(* common_constituents *)

\* constituents.loc[start_date:end_date] on a frame indexed by date
loc_window(rows, start, end) ==
    LET InWindow(r) == DateLeq(start, r.Date) /\ DateLeq(r.Date, end)
    IN  SelectSeq(rows, InWindow)

\* .dropna(axis=0, how='any')
dropna(rows) ==
    LET Keep(r) == r.Company # NaN /\ r.Symbol # NaN
    IN  SelectSeq(rows, Keep)

\* constituents[['Symbol']].value_counts(): occurrences of each symbol
value_counts(rows) ==
    [s \in Range(Column(rows, "Symbol")) |->
        Cardinality({k \in 1..Len(rows) : rows[k].Symbol = s})]

select_at_least(freq, n) == {s \in DOMAIN freq : freq[s] >= n}

\* freq.loc[freq == f]
select_equal(freq, n) == {s \in DOMAIN freq : freq[s] = n}

common_constituents(rows, start, end) ==
    LET window == dropna(loc_window(rows, start, end))
        months == months_between_date(start, end)
        freq   == value_counts(window)
    IN  select_equal(freq, months)

----------------------------------------------------------------------------
(* scrape_constituents_symbols *)

Companies == {"A", "B", "C"}

\* the symbol investing.com lists a company under (search_result.symbol)
ListedSymbol(company) ==
    CASE company = "A" -> "AAA"
      [] company = "B" -> "BBB"
      [] company = "C" -> "CCC"

Tickers == {ListedSymbol(c) : c \in Companies}

keep_duplicates(rows, col) == rows

\* DataFrame.drop_duplicates(col): the first row of each value of col
drop_duplicates(rows, col) ==
    LET First(k) == \A j \in 1..(k - 1) : rows[j][col] # rows[k][col]
        kept == {k \in 1..Len(rows) : First(k)}
        \* the k-th kept row is the one with k - 1 kept rows before it
        At(n) == CHOOSE k \in kept : Cardinality({j \in kept : j < k}) = n - 1
    IN  [n \in 1..Cardinality(kept) |-> rows[At(n)]]

\* the try branch: the row appended for a company that was found
symbol_found(df, company, symbol) ==
    Append(df, [Company |-> company, Symbol |-> symbol])

symbol_not_found_skipped(df, company) == df

\* the except branch: the row appended for a company that was not found
symbol_not_found(df, company) ==
    Append(df, [Company |-> company, Symbol |-> ""])

\* the except branch: the company is recorded in errors
error_recorded(df, company) == Append(df, [Company |-> company])

----------------------------------------------------------------------------
(* match_company_symbol *)

\* records joined per batch
BatchSize == 100

Min(a, b) == IF a <= b THEN a ELSE b

\* rows.iloc[a:b, :]: positions a .. b - 1 from 0, cut at the frame's end
iloc(rows, a, b) == SubSeq(rows, a + 1, Min(b, Len(rows)))

\* the rows pd.merge makes of one left row: one per mapping row of its company
MergedRows(row, right) ==
    LET SameCompany(m) == m.Company = row.Company
        matches == SelectSeq(right, SameCompany)
    IN  [k \in 1..Len(matches) |->
            [Date |-> row.Date, Company |-> row.Company,
             Symbol |-> matches[k].Symbol]]

RECURSIVE MergeFrom(_, _, _)
MergeFrom(left, right, k) ==
    IF k > Len(left) THEN <<>>
    ELSE MergedRows(left[k], right) \o MergeFrom(left, right, k + 1)

merge_resolved_only(left, right) ==
    LET Resolved(m) == m.Symbol # ""
    IN  MergeFrom(left, SelectSeq(right, Resolved), 1)

\* pd.merge(left, right, on='Company'): the inner join, in the left's order
merge(left, right) == MergeFrom(left, right, 1)

range_ceil(n) == (n + BatchSize - 1) \div BatchSize

\* range(int(len(constituents)//100)): the number of batches joined
range_batches(n) == n \div BatchSize

----------------------------------------------------------------------------
(* scrape_daily_returns *)

\* the trading dates of the history service
Dates == 1..MaxDate

\* the percentage change the service reports for a symbol on a date
ChangePct(symbol, date) ==
    date + (CASE symbol = "AAA" -> 10
              [] symbol = "BBB" -> 20
              [] symbol = "CCC" -> 30)

\* rows[::-1]
reversed(rows) == [k \in 1..Len(rows) |-> rows[Len(rows) + 1 - k]]

RECURSIVE Descending(_)
\* a set of dates as a sequence, latest first
Descending(dates) ==
    IF dates = {} THEN <<>>
    ELSE LET last == CHOOSE d \in dates : \A e \in dates : e <= d
         IN  <<last>> \o Descending(dates \ {last})

\* retrieve_historical_data(...).reset_index()[['Date', 'Change Pct']]: the
\* series of a symbol over its trading dates, as the service orders it
retrieve_historical_data(symbol, dates) ==
    [k \in 1..Cardinality(dates) |->
        [Date |-> Descending(dates)[k],
         ChangePct |-> ChangePct(symbol, Descending(dates)[k])]]

\* a cell of the wide table: <<v>> holds v, <<>> is absent (NaN)
Absent == <<>>

\* .rename(columns={'Change Pct': symbol}).iloc[::-1]: a frame with the Date
\* column and one value column named by the symbol
returns_frame(symbol, series) ==
    [columns |-> <<symbol>>,
     rows |-> reversed([k \in 1..Len(series) |->
                  [Date |-> series[k].Date,
                   cells |-> (symbol :> <<series[k].ChangePct>>)]])]

\* a row's cells under the columns of both frames, absent where it has none
Widened(cells, columns) ==
    [c \in Range(columns) |-> IF c \in DOMAIN cells THEN cells[c] ELSE Absent]

\* the rows a left row makes: one per right row of its date, or itself
OuterRows(row, right, columns) ==
    LET SameDate(r) == r.Date = row.Date
        matches == SelectSeq(right.rows, SameDate)
    IN  IF matches = <<>>
        THEN <<[Date |-> row.Date, cells |-> Widened(row.cells, columns)]>>
        ELSE [k \in 1..Len(matches) |->
                 [Date |-> row.Date,
                  cells |-> Widened(matches[k].cells @@ row.cells, columns)]]

RECURSIVE OuterFrom(_, _, _, _)
OuterFrom(left, right, columns, k) ==
    IF k > Len(left.rows) THEN <<>>
    ELSE OuterRows(left.rows[k], right, columns)
            \o OuterFrom(left, right, columns, k + 1)

\* the right rows whose date no left row has, widened
RightOnly(left, right, columns) ==
    LET Unmatched(r) == \A k \in 1..Len(left.rows) : left.rows[k].Date # r.Date
        rest == SelectSeq(right.rows, Unmatched)
    IN  [k \in 1..Len(rest) |->
            [Date |-> rest[k].Date,
             cells |-> Widened(rest[k].cells, columns)]]

merge_left(left, right) ==
    [columns |-> left.columns \o right.columns,
     rows |-> OuterFrom(left, right, left.columns \o right.columns, 1)]

\* pd.merge(left, right, how='outer', on='Date'): the left's rows in order,
\* joined with the right's rows of the same date, then the right's other rows
merge_outer(left, right) ==
    [columns |-> left.columns \o right.columns,
     rows |-> OuterFrom(left, right, left.columns \o right.columns, 1)
                 \o RightOnly(left, right, left.columns \o right.columns)]

\* constituents[["Date", "Symbol"]]
date_symbol(rows) ==
    [k \in 1..Len(rows) |-> [Date |-> rows[k].Date, Symbol |-> rows[k].Symbol]]

----------------------------------------------------------------------------
(* The Date-Window Calculator on its own *)

InitMonths ==
    /\ pc = "months"
    /\ start_date \in DateStrings
    /\ end_date \in DateStrings
    /\ f = 0
    /\ constituents = Empty
    /\ common = Empty
    /\ i = Empty
    /\ constituents_symbols = Empty
    /\ errors = Empty
    /\ lookups = Empty
    /\ constituents_w_symbols = Empty
    /\ symbols = Empty
    /\ searched_data = Empty
    /\ fetched = Empty

\* months_between_date(start_date, end_date); strptime raises ValueError on
\* a string that is no calendar date
MonthsBetweenDate ==
    /\ pc = "months"
    /\ IF strptime_ok(end_date) /\ strptime_ok(start_date)
       THEN /\ f' = months_between_date(start_date, end_date)
            /\ pc' = "months_done"
       ELSE /\ f' = f
            /\ pc' = "raised"
    /\ UNCHANGED <<start_date, end_date, constituents, common, i,
                   constituents_symbols, errors, lookups,
                   constituents_w_symbols, symbols, searched_data, fetched>>

NextMonths == MonthsBetweenDate

SpecMonths == InitMonths /\ [][NextMonths]_vars

----------------------------------------------------------------------------
(* The Constituent Filter on its own *)

\* the months the filter's membership table is sampled in (of 2014)
FilterMonths == 1..3

\* membership is sampled on the last day of a month
SampleDate(m) == <<2014, m, DaysInMonth(2014, m)>>

FilterRows ==
    [Date : {SampleDate(m) : m \in FilterMonths},
     Company : {"A", NaN},
     Symbol : {"AAA", "BBB", NaN}]

\* a frame indexed by date is kept in date order
SortedByDate(rows) ==
    \A k \in 1..(Len(rows) - 1) : DateLeq(rows[k].Date, rows[k + 1].Date)

FilterTables ==
    {t \in UNION {[1..n -> FilterRows] : n \in 0..MaxRows} : SortedByDate(t)}

InitFilter ==
    /\ pc = "filter"
    /\ constituents \in FilterTables
    /\ start_date \in {<<2014, m, 1>> : m \in FilterMonths}
    /\ end_date \in {SampleDate(m) : m \in FilterMonths}
    /\ f = 0
    /\ common = {}
    /\ i = Empty
    /\ constituents_symbols = Empty
    /\ errors = Empty
    /\ lookups = Empty
    /\ constituents_w_symbols = Empty
    /\ symbols = Empty
    /\ searched_data = Empty
    /\ fetched = Empty

CommonConstituents ==
    /\ pc = "filter"
    /\ f' = months_between_date(start_date, end_date)
    /\ common' = common_constituents(constituents, start_date, end_date)
    /\ pc' = "filter_done"
    /\ UNCHANGED <<start_date, end_date, constituents, i,
                   constituents_symbols, errors, lookups,
                   constituents_w_symbols, symbols, searched_data, fetched>>

NextFilter == CommonConstituents

SpecFilter == InitFilter /\ [][NextFilter]_vars

----------------------------------------------------------------------------
(* Properties of the Date-Window Calculator *)

\* the calendar months that meet the closed interval [start, end]
MonthsSpanned(start, end) ==
    {ym \in Years \X (1..12) :
        /\ start[1] < ym[1] \/ (start[1] = ym[1] /\ start[2] <= ym[2])
        /\ ym[1] < end[1] \/ (ym[1] = end[1] /\ ym[2] <= end[2])}

\* C9: for valid dates with start <= end, months_between_date returns
\* (end.year - start.year) * 12 + (end.month - start.month) + 1, which is the
\* number of calendar months from start's month to end's month inclusive
\* (so whatever the days of month), is at least 1, is
\* end.month - start.month + 1 within a year, and is 12 from 2014-01-31 to
\* 2014-12-31.
C9_MonthCount ==
    (pc = "months_done" /\ DateLeq(start_date, end_date)) =>
        /\ f = (end_date[1] - start_date[1]) * 12
                 + (end_date[2] - start_date[2]) + 1
        /\ f = Cardinality(MonthsSpanned(start_date, end_date))
        /\ f >= 1
        /\ start_date[1] = end_date[1] => f = end_date[2] - start_date[2] + 1
        /\ (start_date = <<2014, 1, 31>> /\ end_date = <<2014, 12, 31>>)
              => f = 12

C9_Witness ==
    /\ pc = "months_done"
    /\ start_date = <<2014, 1, 31>>
    /\ end_date = <<2014, 12, 31>>
    /\ f = 12

----------------------------------------------------------------------------
(* Properties of the Constituent Filter *)

\* the records of symbol s dated inside the closed window, no field missing
RecordsInWindow(s) ==
    {k \in 1..Len(constituents) :
        /\ constituents[k].Symbol = s
        /\ constituents[k].Company # NaN
        /\ DateLeq(start_date, constituents[k].Date)
        /\ DateLeq(constituents[k].Date, end_date)}

Identifiers == {constituents[k].Symbol : k \in 1..Len(constituents)} \ {NaN}

\* C4: for a window with start <= end, common_constituents returns exactly
\* the identifiers whose number of non-missing records dated inside the
\* closed window equals f = months_between_date(start, end); identifiers
\* with fewer or with more records are excluded, and every returned
\* identifier occurs in the input table.
C4_ExactlyF ==
    (pc = "filter_done" /\ DateLeq(start_date, end_date)) =>
        /\ f = Cardinality(MonthsSpanned(start_date, end_date))
        /\ common = {s \in Identifiers : Cardinality(RecordsInWindow(s)) = f}
        /\ common \subseteq Identifiers

C4_Witness ==
    /\ pc = "filter_done"
    /\ f = 2
    /\ common = {"AAA"}
    /\ Cardinality(RecordsInWindow("BBB")) = 1
    /\ Len(constituents) = 3

\* an identifier with more than f records in the window is left out
C4_WitnessMore ==
    /\ pc = "filter_done"
    /\ f = 1
    /\ common = {"BBB"}
    /\ Cardinality(RecordsInWindow("AAA")) = 2

----------------------------------------------------------------------------
(* The Symbol Resolver *)

\* constituents.iat[i, 1] after drop_duplicates('Company'), i from 0
CompanyAt(k) == drop_duplicates(constituents, "Company")[k + 1].Company

\* the try branch: search_quotes returns its best match
SearchFound ==
    /\ pc = "resolve"
    /\ i < Len(drop_duplicates(constituents, "Company"))
    /\ LET company == CompanyAt(i)
           symbol  == ListedSymbol(company)
       IN  /\ lookups' = Append(lookups, [text |-> company, found |-> TRUE,
                                          symbol |-> symbol])
           /\ constituents_symbols' =
                  symbol_found(constituents_symbols, company, symbol)
    /\ i' = i + 1
    /\ UNCHANGED <<pc, start_date, end_date, constituents, f, common, errors,
                   constituents_w_symbols, symbols, searched_data, fetched>>

\* the except branch: search_quotes raises (network, no match)
SearchFailed ==
    /\ pc = "resolve"
    /\ i < Len(drop_duplicates(constituents, "Company"))
    /\ LET company == CompanyAt(i)
       IN  /\ lookups' = Append(lookups, [text |-> company, found |-> FALSE,
                                          symbol |-> ""])
           /\ errors' = error_recorded(errors, company)
           /\ constituents_symbols' =
                  symbol_not_found(constituents_symbols, company)
    /\ i' = i + 1
    /\ UNCHANGED <<pc, start_date, end_date, constituents, f, common,
                   constituents_w_symbols, symbols, searched_data, fetched>>

\* the loop is over: return constituents_symbols, errors
ResolveReturn(next) ==
    /\ pc = "resolve"
    /\ i = Len(drop_duplicates(constituents, "Company"))
    /\ pc' = next
    /\ i' = 0
    /\ UNCHANGED <<start_date, end_date, constituents, f, common,
                   constituents_symbols, errors, lookups,
                   constituents_w_symbols, symbols, searched_data, fetched>>

ResolverRows == [Date : 1..2, Company : Companies]

ResolverTables == UNION {[1..n -> ResolverRows] : n \in 0..MaxRows}

InitResolve ==
    /\ pc = "resolve"
    /\ constituents \in ResolverTables
    /\ i = 0
    /\ constituents_symbols = <<>>
    /\ errors = <<>>
    /\ lookups = <<>>
    /\ start_date = Empty
    /\ end_date = Empty
    /\ f = Empty
    /\ common = Empty
    /\ constituents_w_symbols = Empty
    /\ symbols = Empty
    /\ searched_data = Empty
    /\ fetched = Empty

NextResolve ==
    \/ SearchFound
    \/ SearchFailed
    \/ ResolveReturn("resolved")

SpecResolve == InitResolve /\ [][NextResolve]_vars

----------------------------------------------------------------------------
(* Properties of the Symbol Resolver *)

DistinctCompanies ==
    \A j, k \in 1..Len(constituents) :
        constituents[j].Company = constituents[k].Company => j = k

\* the positions whose lookup failed
FailedPositions == {k \in 1..Len(lookups) : ~lookups[k].found}

\* C5: for a list of N distinct companies and any set F of positions whose
\* lookup fails, the loop runs over all N companies, the mapping has N rows
\* in input order, exactly the rows at positions in F carry the empty symbol
\* and the others the symbol the lookup returned, and errors holds exactly
\* the companies at positions in F, in input order.
C5_ResolverRows ==
    (pc = "resolved" /\ DistinctCompanies) =>
        LET N == Len(constituents)
            F == FailedPositions
        IN  /\ Len(lookups) = N
            /\ Len(constituents_symbols) = N
            /\ \A k \in 1..N :
                  /\ lookups[k].text = constituents[k].Company
                  /\ constituents_symbols[k].Company = constituents[k].Company
                  /\ constituents_symbols[k].Symbol = "" <=> k \in F
                  /\ k \notin F =>
                        constituents_symbols[k].Symbol = lookups[k].symbol
            /\ Len(errors) = Cardinality(F)
            /\ \A k \in F :
                  errors[Cardinality({j \in F : j <= k})].Company =
                      constituents[k].Company

C5_Witness ==
    /\ pc = "resolved"
    /\ DistinctCompanies
    /\ Len(constituents) = 3
    /\ FailedPositions = {1, 3}
    /\ Len(errors) = 2
    /\ constituents_symbols[2].Symbol # ""

\* the position of the first record of a company in the membership table
FirstRecord(company) ==
    CHOOSE k \in 1..Len(constituents) :
        /\ constituents[k].Company = company
        /\ \A j \in 1..(k - 1) : constituents[j].Company # company

\* C8: on a membership table in which companies repeat, one lookup is issued
\* per distinct company, in order of first occurrence, and the mapping has
\* one row per distinct company, whatever the lookups' outcomes.
C8_OnePerCompany ==
    pc = "resolved" =>
        LET present == {constituents[k].Company : k \in 1..Len(constituents)}
        IN  /\ Len(lookups) = Cardinality(present)
            /\ {lookups[k].text : k \in 1..Len(lookups)} = present
            /\ \A j, k \in 1..Len(lookups) :
                  j < k => FirstRecord(lookups[j].text)
                              < FirstRecord(lookups[k].text)
            /\ Len(constituents_symbols) = Cardinality(present)
            /\ \A k \in 1..Len(lookups) :
                  constituents_symbols[k].Company = lookups[k].text
            /\ \A j, k \in 1..Len(constituents_symbols) :
                  constituents_symbols[j].Company
                      = constituents_symbols[k].Company => j = k

C8_Witness ==
    /\ pc = "resolved"
    /\ Len(constituents) = 3
    /\ constituents[1].Company = constituents[3].Company
    /\ constituents[1].Company # constituents[2].Company
    /\ Len(constituents_symbols) = 2
    /\ Len(errors) = 1

----------------------------------------------------------------------------
(* The Constituent-Symbol Matcher *)

\* one pass of the loop: batch i is joined and appended to the result
MatchBatch ==
    /\ pc = "match"
    /\ i < range_batches(Len(constituents))
    /\ LET merged == merge(iloc(constituents, i * BatchSize,
                                (i + 1) * BatchSize),
                           constituents_symbols)
       IN  constituents_w_symbols' = constituents_w_symbols \o merged
    /\ i' = i + 1
    /\ UNCHANGED <<pc, start_date, end_date, constituents, f, common,
                   constituents_symbols, errors, lookups, symbols,
                   searched_data, fetched>>

\* the loop is over: return constituents_w_symbols
MatchReturn(next) ==
    /\ pc = "match"
    /\ i = range_batches(Len(constituents))
    /\ pc' = next
    /\ UNCHANGED <<start_date, end_date, constituents, f, common, i,
                   constituents_symbols, errors, lookups,
                   constituents_w_symbols, symbols, searched_data, fetched>>

\* every GapPeriod-th month, from month gap, company C is out of the index
GapPeriod == 3

InIndex(company, m, gap) ==
    company = "C" => (gap = 0 \/ ((m - 1) % GapPeriod) + 1 # gap)

\* the constituents of month m, as the membership file lists them
MonthRows(m, gap) ==
    LET Listed(c) == InIndex(c, m, gap)
    IN  [k \in 1..Len(SelectSeq(<<"A", "B", "C">>, Listed)) |->
            [Date |-> m,
             Company |-> SelectSeq(<<"A", "B", "C">>, Listed)[k]]]

RECURSIVE MembershipTable(_, _)
\* the monthly membership history of months 1 .. months
MembershipTable(months, gap) ==
    IF months = 0 THEN <<>>
    ELSE MembershipTable(months - 1, gap) \o MonthRows(months, gap)

\* a mapping: per company no row, a row without symbol, or its symbol
MappingTable(choice) ==
    LET Row(c) == IF choice[c] = "none" THEN <<>>
                  ELSE <<[Company |-> c,
                          Symbol |-> IF choice[c] = "failed" THEN ""
                                     ELSE ListedSymbol(c)]>>
    IN  Row("A") \o Row("B") \o Row("C")

InitMatch ==
    /\ pc = "match"
    /\ \E months \in 0..MaxMonths, gap \in 0..GapPeriod :
          constituents = MembershipTable(months, gap)
    /\ \E choice \in [Companies -> {"none", "failed", "found"}] :
          constituents_symbols = MappingTable(choice)
    /\ i = 0
    /\ constituents_w_symbols = <<>>
    /\ start_date = Empty
    /\ end_date = Empty
    /\ f = Empty
    /\ common = Empty
    /\ errors = Empty
    /\ lookups = Empty
    /\ symbols = Empty
    /\ searched_data = Empty
    /\ fetched = Empty

NextMatch ==
    \/ MatchBatch
    \/ MatchReturn("matched")

SpecMatch == InitMatch /\ [][NextMatch]_vars

----------------------------------------------------------------------------
(* Properties of the Constituent-Symbol Matcher *)

\* C1: the matcher's output is the single unbounded inner join of the whole
\* membership table with the mapping on company name, whatever the table's
\* length (the batch size does not show).
C1_UnboundedJoin ==
    pc = "matched" =>
        constituents_w_symbols = merge(constituents, constituents_symbols)

\* the pairs (record, mapping row) of one company, the record among the
\* first n
Pairs(n) ==
    {p \in (1..n) \X (1..Len(constituents_symbols)) :
        constituents[p[1]].Company = constituents_symbols[p[2]].Company}

C10_WitnessShort ==
    /\ pc = "matched"
    /\ Len(constituents) = 99
    /\ Len(constituents_symbols) = 3
    /\ constituents_w_symbols = <<>>

----------------------------------------------------------------------------
(* The Returns Aggregator *)

\* symbols.iat[i, 1], i from 0
SymbolAt(k) == symbols[k + 1].Symbol

\* search_quotes has no text to search for an empty symbol
Searchable(symbol) == symbol # ""

\* line 117: the rows of the matched table with unique symbols
ReturnsStart ==
    /\ pc = "returns"
    /\ symbols' = drop_duplicates(date_symbol(constituents_w_symbols), "Symbol")
    /\ fetched' = <<>>
    /\ pc' = "returns_first"
    /\ UNCHANGED <<start_date, end_date, constituents, f, common, i,
                   constituents_symbols, errors, lookups,
                   constituents_w_symbols, searched_data>>

\* symbols.iat[0, 1] of an empty frame raises IndexError
FirstSymbolMissing ==
    /\ pc = "returns_first"
    /\ Len(symbols) = 0
    /\ pc' = "raised"
    /\ UNCHANGED <<start_date, end_date, constituents, f, common, i,
                   constituents_symbols, errors, lookups,
                   constituents_w_symbols, symbols, searched_data, fetched>>

\* the search or the history of the first symbol raises, outside any try
FirstFetchFailed ==
    /\ pc = "returns_first"
    /\ Len(symbols) > 0
    /\ fetched' = Append(fetched, [symbol |-> SymbolAt(0), ok |-> FALSE,
                                   dates |-> {}])
    /\ pc' = "raised"
    /\ UNCHANGED <<start_date, end_date, constituents, f, common, i,
                   constituents_symbols, errors, lookups,
                   constituents_w_symbols, symbols, searched_data>>

\* the first symbol's series seeds searched_data
FirstFetched(market) ==
    /\ pc = "returns_first"
    /\ Len(symbols) > 0
    /\ Searchable(SymbolAt(0))
    /\ LET symbol == SymbolAt(0)
           series == retrieve_historical_data(symbol, market[symbol])
       IN  /\ searched_data' = returns_frame(symbol, series)
           /\ fetched' = Append(fetched, [symbol |-> symbol, ok |-> TRUE,
                                          dates |-> market[symbol]])
    /\ i' = 1
    /\ pc' = "returns_loop"
    /\ UNCHANGED <<start_date, end_date, constituents, f, common,
                   constituents_symbols, errors, lookups,
                   constituents_w_symbols, symbols>>

\* the try branch: symbol i's series is outer-joined onto searched_data
NextFetched(market) ==
    /\ pc = "returns_loop"
    /\ i < Len(symbols)
    /\ Searchable(SymbolAt(i))
    /\ LET symbol == SymbolAt(i)
           series == retrieve_historical_data(symbol, market[symbol])
           returns == returns_frame(symbol, series)
       IN  /\ searched_data' = merge_outer(searched_data, returns)
           /\ fetched' = Append(fetched, [symbol |-> symbol, ok |-> TRUE,
                                          dates |-> market[symbol]])
    /\ i' = i + 1
    /\ UNCHANGED <<pc, start_date, end_date, constituents, f, common,
                   constituents_symbols, errors, lookups,
                   constituents_w_symbols, symbols>>

\* the except branch: the symbol is skipped
NextFetchFailed ==
    /\ pc = "returns_loop"
    /\ i < Len(symbols)
    /\ fetched' = Append(fetched, [symbol |-> SymbolAt(i), ok |-> FALSE,
                                   dates |-> {}])
    /\ i' = i + 1
    /\ UNCHANGED <<pc, start_date, end_date, constituents, f, common,
                   constituents_symbols, errors, lookups,
                   constituents_w_symbols, symbols, searched_data>>

\* the loop is over: return searched_data
ReturnsReturn ==
    /\ pc = "returns_loop"
    /\ i >= Len(symbols)
    /\ pc' = "done"
    /\ UNCHANGED <<start_date, end_date, constituents, f, common, i,
                   constituents_symbols, errors, lookups,
                   constituents_w_symbols, symbols, searched_data, fetched>>

\* a matched row of a symbol: the first sample of the company listed under it
MatchedRows ==
    {[Date |-> 1, Company |-> c, Symbol |-> ListedSymbol(c)] : c \in Companies}
    \cup {[Date |-> 1, Company |-> "A", Symbol |-> ""]}

InitReturns ==
    /\ pc = "returns"
    /\ constituents_w_symbols
          \in UNION {[1..n -> MatchedRows] : n \in 0..MaxMatched}
    /\ symbols = <<>>
    /\ searched_data = <<>>
    /\ fetched = <<>>
    /\ i = 0
    /\ start_date = Empty
    /\ end_date = Empty
    /\ constituents = Empty
    /\ f = Empty
    /\ common = Empty
    /\ constituents_symbols = Empty
    /\ errors = Empty
    /\ lookups = Empty

NextReturns ==
    \/ ReturnsStart
    \/ FirstSymbolMissing
    \/ FirstFetchFailed
    \/ \E dates \in SUBSET Dates : FirstFetched([t \in Tickers |-> dates])
    \/ \E dates \in SUBSET Dates : NextFetched([t \in Tickers |-> dates])
    \/ NextFetchFailed
    \/ ReturnsReturn

SpecReturns == InitReturns /\ [][NextReturns]_vars

----------------------------------------------------------------------------
(* Properties of the Returns Aggregator *)

FailedSymbols == {fetched[k].symbol : k \in {j \in 1..Len(fetched) : ~fetched[j].ok}}

\* C2: whatever the list of unique symbols (the empty list too) and whatever
\* fetches fail (the first one, all of them), the aggregator returns a table
\* and never raises, and a symbol whose fetch failed has no column in it.
C2_NeverRaises ==
    /\ pc # "raised"
    /\ pc = "done" => \A s \in FailedSymbols : s \notin Range(searched_data.columns)

\* the trading dates the service returned for a symbol
DatesOf(symbol) ==
    (CHOOSE e \in Range(fetched) : e.symbol = symbol).dates

\* C6: when every fetch succeeds (each series having distinct dates), the
\* result has exactly one row per date in the union of all symbols' trading
\* dates, one column per symbol, and the cell of (date d, symbol s) holds s's
\* value when s has data on d and is absent otherwise.
C6_DateUnion ==
    (pc = "done" /\ FailedSymbols = {}) =>
        LET rows == searched_data.rows
            wanted == {symbols[k].Symbol : k \in 1..Len(symbols)}
            union == UNION {DatesOf(s) : s \in wanted}
        IN  /\ {rows[k].Date : k \in 1..Len(rows)} = union
            /\ Len(rows) = Cardinality(union)
            /\ Range(searched_data.columns) = wanted
            /\ Len(searched_data.columns) = Cardinality(wanted)
            /\ \A k \in 1..Len(rows) :
                  /\ DOMAIN rows[k].cells = wanted
                  /\ \A s \in wanted :
                        rows[k].cells[s] =
                            IF rows[k].Date \in DatesOf(s)
                            THEN <<ChangePct(s, rows[k].Date)>>
                            ELSE Absent

C6_Witness ==
    /\ pc = "done"
    /\ Len(fetched) = 2
    /\ fetched[1] = [symbol |-> "AAA", ok |-> TRUE, dates |-> {1, 2, 3}]
    /\ fetched[2] = [symbol |-> "BBB", ok |-> TRUE, dates |-> {2, 3, 4}]
    /\ {searched_data.rows[k].Date : k \in 1..Len(searched_data.rows)} = 1..4
    /\ \E k \in 1..Len(searched_data.rows) :
          /\ searched_data.rows[k].Date = 4
          /\ searched_data.rows[k].cells["AAA"] = Absent
    /\ \E k \in 1..Len(searched_data.rows) :
          /\ searched_data.rows[k].Date = 1
          /\ searched_data.rows[k].cells["BBB"] = Absent

----------------------------------------------------------------------------
(* main: the resolver, the matcher and the aggregator in sequence *)

\* the trading dates of each listed symbol over the period
MainMarket ==
    [t \in Tickers |->
        CASE t = "AAA" -> {1, 2, 3}
          [] t = "BBB" -> {2, 3, 4}
          [] t = "CCC" -> {1, 4}]

Init ==
    /\ pc = "resolve"
    /\ \E months \in 0..MaxMonths, gap \in 0..GapPeriod :
          constituents = MembershipTable(months, gap)
    /\ start_date = "01/01/2014"
    /\ end_date = "01/07/2021"
    /\ i = 0
    /\ constituents_symbols = <<>>
    /\ errors = <<>>
    /\ lookups = <<>>
    /\ constituents_w_symbols = <<>>
    /\ symbols = <<>>
    /\ searched_data = <<>>
    /\ fetched = <<>>
    /\ f = Empty
    /\ common = Empty

Next ==
    \/ SearchFound
    \/ SearchFailed
    \/ ResolveReturn("match")
    \/ MatchBatch
    \/ MatchReturn("returns")
    \/ ReturnsStart
    \/ FirstSymbolMissing
    \/ FirstFetchFailed
    \/ FirstFetched(MainMarket)
    \/ NextFetched(MainMarket)
    \/ NextFetchFailed
    \/ ReturnsReturn

Spec == Init /\ [][Next]_vars

----------------------------------------------------------------------------
(* Properties of the matcher fed by the resolver *)

\* the companies whose lookup failed
Unresolved == {errors[k].Company : k \in 1..Len(errors)}

MatcherReturned ==
    pc \in {"returns", "returns_first", "returns_loop", "done", "raised"}

----------------------------------------------------------------------------
(* The end-to-end scenario *)

\* the membership table as the filter reads it: indexed by the sample date
\* of each month, the company as identifier
Sampled(rows) ==
    [k \in 1..Len(rows) |->
        [Date |-> SampleDate(rows[k].Date), Company |-> rows[k].Company,
         Symbol |-> rows[k].Company]]

\* companies A, B, C over 3 months, C in 2 of them; the lookup of A returns
\* "AAA", the lookup of B fails
Scenario ==
    /\ \E gap \in 1..3 : constituents = MembershipTable(3, gap)
    /\ \E k \in 1..Len(lookups) :
          lookups[k] = [text |-> "A", found |-> TRUE, symbol |-> "AAA"]
    /\ \E k \in 1..Len(lookups) : lookups[k].text = "B" /\ ~lookups[k].found

RowsOfA ==
    [m \in 1..3 |-> [Date |-> m, Company |-> "A", Symbol |-> "AAA"]]

\* C7: in the scenario the filter yields {A, B}, the resolver maps A to
\* "AAA" and B to the empty symbol, the matcher's output is exactly A's
\* membership rows, and the aggregator returns a table whose only value
\* column is "AAA".
C7_EndToEnd ==
    Scenario =>
        /\ common_constituents(Sampled(constituents), <<2014, 1, 1>>,
                               <<2014, 3, 31>>) = {"A", "B"}
        /\ pc # "resolve" =>
              /\ [Company |-> "A", Symbol |-> "AAA"]
                    \in Range(constituents_symbols)
              /\ [Company |-> "B", Symbol |-> ""]
                    \in Range(constituents_symbols)
        /\ MatcherReturned => constituents_w_symbols = RowsOfA
        /\ pc # "raised"
        /\ pc = "done" => searched_data.columns = <<"AAA">>

=============================================================================
